---------------------------- MODULE Spec2Model ----------------------------
(***************************************************************************)
(* A model of syncalc.py: the cross-product algebra of a person and a      *)
(* number hierarchy, its closure under reachability, the enumeration of    *)
(* the closed algebras with added arcs, the syncretism pattern of an       *)
(* algebra, the monotonicity test and the isomorphism of patterns.         *)
(*                                                                         *)
(* A label is a one-character string.  A node, in the source the           *)
(* two-character string person+number that add_ranking unpacks again into  *)
(* (person, number), is the pair <<person, number>>.  A ranking (an arc)   *)
(* is a pair of labels or of nodes.  Python's None is the empty tuple.     *)
(***************************************************************************)
EXTENDS Integers, Sequences, FiniteSets

VARIABLES
    fn,               \* the function that was called
    pc,               \* its position: "call", "return", or the exception raised
    person,           \* argument: the person hierarchy
    number,           \* argument: the number hierarchy
    algebra,          \* argument: a relation over the nodes
    output,           \* crossalgebra: the value returned
    r,                \* arc_addition: the size of the subsets being drawn
    consumed,         \* arc_addition: the subsets of size r already drawn
    closed_algebras,  \* arc_addition: the closed algebras collected
    relation,         \* reachability_closure: the argument of the first call
    calls,            \* reachability_closure: the calls made, recursive ones included
    application,      \* reachability_closure: 1, or 2 when applied to its own result
    closure1,         \* reachability_closure: the result of the first application
    syncretism,       \* a tuple of numbers or of labels, one per cell
    letters,          \* number_to_letter: the pattern returned
    verdict,          \* test_monotonicity, isomorphic: the value returned
    xs,               \* isomorphic: the first sequence of labels
    ys,               \* isomorphic: the second sequence of labels
    data,             \* the attested patterns: the rows read_data returned
    patterns,         \* the candidate patterns, in the order of the list
    all_monotonic,    \* monotonicity_overgeneration: the keys of all_monotonic
    position,         \* monotonicity_overgeneration: the next key of the loop
    unique_monotonic, \* monotonicity_overgeneration: the keys of unique_monotonic
    report            \* monotonicity_overgeneration: the keys of the dict returned

hierVars == <<person, number>>
arcVars == <<r, consumed, closed_algebras>>
closureVars == <<relation, calls, application, closure1>>
patternVars == <<syncretism, letters>>
isoVars == <<verdict, xs, ys>>
overVars == <<data, patterns, all_monotonic, position, unique_monotonic, report>>
vars == <<fn, pc, person, number, algebra, output, r, consumed, closed_algebras,
          relation, calls, application, closure1, syncretism, letters,
          verdict, xs, ys,
          data, patterns, all_monotonic, position, unique_monotonic, report>>

IdleHier == person = {} /\ number = {}
IdleArc == r = 0 /\ consumed = {} /\ closed_algebras = {}
IdleClosure == relation = {} /\ calls = 0 /\ application = 0 /\ closure1 = {}
IdlePattern == syncretism = <<>> /\ letters = <<>>
IdleIso == verdict = FALSE /\ xs = <<>> /\ ys = <<>>
IdleOver ==
    /\ data = {}
    /\ patterns = <<>>
    /\ all_monotonic = <<>>
    /\ position = 0
    /\ unique_monotonic = <<>>
    /\ report = <<>>

---------------------------------------------------------------------------
(* Bounds *)

\* arc_addition is explored for algebras that miss at most MaxPool arcs.
MaxPool == 3

\* reachability_closure is explored for relations of at most MaxArcs pairs.
MaxArcs == 4

\* algebra_interpretation is explored for the closures of at most MaxSeed arcs
\* over the six cells.
MaxSeed == 4

\* test_monotonicity is explored for the base algebras and for the relations
\* of at most MaxMonoArcs arcs over the six cells.
MaxMonoArcs == 2

\* isomorphic is explored for sequences of at most MaxLen labels.
MaxLen == 4

\* monotonicity_overgeneration is explored for lists of at most MaxCandidates
\* candidate patterns.
MaxCandidates == 3

\* The subsets of S of at most k elements.
RECURSIVE SubsetsUpTo(_, _)
SubsetsUpTo(S, k) ==
    IF k = 0
    THEN {{}}
    ELSE LET smaller == SubsetsUpTo(S, k - 1)
         IN  smaller \cup {T \cup {x} : T \in smaller, x \in S}

---------------------------------------------------------------------------
(* Labels and hierarchies *)

Persons == {"1", "2", "3"}
Numbers == {"s", "p"}

None == <<>>

extract_elements(hierarchy) ==
    {ranking[1] : ranking \in hierarchy} \cup {ranking[2] : ranking \in hierarchy}

\* The nodes person+number of the two hierarchies.
Nodes(persons, numbers) == persons \X numbers

add_ranking(node1, node2, prs, nmb) ==
    LET person1 == node1[1]
        number1 == node1[2]
        person2 == node2[1]
        number2 == node2[2]
    IN  IF /\ node1 # node2
           /\ (person1 = person2 \/ <<person1, person2>> \in prs)
           /\ (number1 = number2 \/ <<number1, number2>> \in nmb)
        THEN <<node1, node2>>
        ELSE None

\* The set built by the generator expression, None included.
CrossRankings(prs, nmb) ==
    LET nodes == Nodes(extract_elements(prs), extract_elements(nmb))
    IN  {add_ranking(node, other_node, prs, nmb) : node \in nodes, other_node \in nodes}

\* set.remove raises KeyError when the element is absent.
CrossRaises(prs, nmb) == None \notin CrossRankings(prs, nmb)

crossalgebra(prs, nmb) == CrossRankings(prs, nmb) \ {None}

---------------------------------------------------------------------------
(* Closure under reachability *)

\* A pass that forgets the test ranking[0] != other_ranking[1].
ClosureRound_no_guard(alg) ==
    alg \cup {<<x[1][1], x[2][2]>> : x \in {y \in alg \X alg : y[1][2] = y[2][1]}}

\* A pass that starts from an empty set instead of a copy of the algebra.
ClosureRound_no_copy(alg) ==
    {<<x[1][1], x[2][2]>> :
        x \in {y \in alg \X alg : y[1][2] = y[2][1] /\ y[1][1] # y[2][2]}}

\* One call's pass over all pairs of rankings.
ClosureRound(alg) ==
    alg \cup {<<x[1][1], x[2][2]>> :
                x \in {y \in alg \X alg : y[1][2] = y[2][1] /\ y[1][1] # y[2][2]}}

\* A call that returns after its pass, whatever the pass added.
ClosureReturns_always(new_algebra, alg) == TRUE

\* The call returns new_algebra when the pass added nothing.
ClosureReturns(new_algebra, alg) == new_algebra = alg

RECURSIVE reachability_closure(_)
reachability_closure(alg) ==
    LET new_algebra == ClosureRound(alg)
    IN  IF ClosureReturns(new_algebra, alg)
        THEN new_algebra
        ELSE reachability_closure(new_algebra)

---------------------------------------------------------------------------
(* Algebras with added arcs *)

\* All arcs over the nodes of the hierarchies, minus those of the algebra.
all_arcs(alg, prs, nmb) ==
    LET nodes == Nodes(extract_elements(prs), extract_elements(nmb))
    IN  {a \in nodes \X nodes : a[1] # a[2]} \ alg

\* combinations(all_arcs, r), as a set.
combinations(arcs, size) == {s \in SUBSET arcs : Cardinality(s) = size}

\* A generator that yields the additions without the algebra.
algebra_expansion_additions_only(alg, additions) == additions

\* algebra_expansions yields algebra.copy().union(additions).
algebra_expansion(alg, additions) == alg \cup additions

---------------------------------------------------------------------------
(* Syncretisms from an algebra *)

presentation ==
    << <<"1", "s">>, <<"2", "s">>, <<"3", "s">>,
       <<"1", "p">>, <<"2", "p">>, <<"3", "p">> >>

Max(S) == CHOOSE x \in S : \A y \in S : y <= x
Min(S) == CHOOSE x \in S : \A y \in S : x <= y
Range(f) == {f[i] : i \in DOMAIN f}

\* A test that takes one direction of the tie for the tie.
MutualTie_one_direction(alg, other_cell, cell) == <<other_cell, cell>> \in alg

\* The test of the inner loop: both arcs are in the algebra.
MutualTie(alg, other_cell, cell) ==
    <<other_cell, cell>> \in alg /\ <<cell, other_cell>> \in alg

\* The loop over presentation[1:], from the syncretism built so far: the
\* value of the first earlier cell tied with the cell, else max + 1.
RECURSIVE InterpretFrom(_, _)
InterpretFrom(alg, sync) ==
    IF Len(sync) = Len(presentation)
    THEN sync
    ELSE LET cell == presentation[Len(sync) + 1]
             threshold == Len(sync)
             found == {pos \in 1..threshold : MutualTie(alg, presentation[pos], cell)}
             value == IF found # {} THEN sync[Min(found)] ELSE Max(Range(sync)) + 1
         IN  InterpretFrom(alg, Append(sync, value))

algebra_interpretation(alg) == InterpretFrom(alg, <<0>>)

\* chr(65 + number), for the numbers six cells can get.
chr65 == <<"A", "B", "C", "D", "E", "F">>

number_to_letter(sync) == [i \in DOMAIN sync |-> chr65[sync[i] + 1]]

---------------------------------------------------------------------------
(* The hierarchies of the program and their base algebras *)

number_hrcs ==
    [nlab \in {"sp", "ps"} |->
        CASE nlab = "sp" -> {<<"s", "p">>}
          [] nlab = "ps" -> {<<"p", "s">>}]

person_hrcs ==
    [plab \in {"123", "12|3", "1|23"} |->
        CASE plab = "123" -> {<<"1", "2">>, <<"2", "3">>, <<"1", "3">>}
          [] plab = "12|3" -> {<<"1", "2">>, <<"1", "3">>}
          [] plab = "1|23" -> {<<"1", "3">>, <<"2", "3">>}]

base_algebras ==
    [key \in (DOMAIN person_hrcs) \X (DOMAIN number_hrcs) |->
        reachability_closure(crossalgebra(person_hrcs[key[1]], number_hrcs[key[2]]))]

---------------------------------------------------------------------------
(* Monotonicity *)

\* dict(zip(presentation, syncretism)): zip stops at the shorter of the two.
Labeling(sync) ==
    [cell \in {presentation[i] : i \in 1..Min({Len(presentation), Len(sync)})} |->
        sync[CHOOSE i \in 1..Len(presentation) : presentation[i] = cell]]

relabel_algebra(alg, sync) ==
    {<<Labeling(sync)[x[1]], Labeling(sync)[x[2]]>> : x \in alg}

\* A test without a != b: a relabelled self-pair is its own reversal.
test_monotonicity_no_guard(alg, sync) ==
    LET relabelled == relabel_algebra(alg, sync)
    IN  ~ \E x \in relabelled : \E y \in relabelled : x = <<y[2], y[1]>>

test_monotonicity(alg, sync) ==
    LET relabelled == relabel_algebra(alg, sync)
    IN  ~ \E x \in relabelled :
            x[1] # x[2] /\ \E y \in relabelled : x = <<y[2], y[1]>>

is_monotonic(algebras, sync) ==
    {key \in DOMAIN algebras : test_monotonicity(algebras[key], sync)}

---------------------------------------------------------------------------
(* Isomorphism of label sequences *)

\* A scan that looks at the position just before only.
EarlierPositions_last(pos) == {pos - 1}

\* range(pos), as positions of a sequence that starts at 1.
EarlierPositions(pos) == 1..(pos - 1)

\* The loop from the list built so far: the number of the first earlier
\* position with the same label, else max + 1.
RECURSIVE NumberFrom(_, _)
NumberFrom(seq, nums) ==
    IF Len(nums) = Len(seq)
    THEN nums
    ELSE LET pos == Len(nums) + 1
             same == {left \in EarlierPositions(pos) : seq[pos] = seq[left]}
             value == IF same # {} THEN nums[Min(same)] ELSE Max(Range(nums)) + 1
         IN  NumberFrom(seq, Append(nums, value))

letter_to_number(seq) == IF seq = <<>> THEN seq ELSE NumberFrom(seq, <<1>>)

isomorphic(seq1, seq2) == letter_to_number(seq1) = letter_to_number(seq2)

---------------------------------------------------------------------------
(* Overgeneration of the monotonic patterns *)

\* The keys of a dict built from a list: each pattern once, in the order of
\* its first occurrence.
RECURSIVE KeysOf(_)
KeysOf(seq) ==
    IF seq = <<>>
    THEN <<>>
    ELSE LET front == KeysOf(SubSeq(seq, 1, Len(seq) - 1))
             last == seq[Len(seq)]
         IN  IF last \in Range(front) THEN front ELSE Append(front, last)

\* show_monotonicity(algebras, data), then the filter "if val": the patterns
\* with a non-empty list of monotonic algebras.
AllMonotonic(algebras, seq) ==
    LET NonEmpty(key) == is_monotonic(algebras, key) # {}
    IN  SelectSeq(KeysOf(seq), NonEmpty)

\* The body of the loop that builds unique_monotonic.
UniqueAdd(unique, key) ==
    IF \E i \in 1..Len(unique) : isomorphic(key, unique[i])
    THEN unique
    ELSE Append(unique, key)

\* The dict comprehension returned: a key of unique_monotonic is kept for
\* each key2 of attested_monotonic that passes the test.
OvergenerationReport(unique, attested) ==
    LET Kept(key) == \E key2 \in attested : ~ isomorphic(key, key2)
    IN  SelectSeq(unique, Kept)

---------------------------------------------------------------------------
(* crossalgebra and arc_addition as operations *)

\* The hierarchies arc_addition is explored with: node sets of 4, 2, 3 and 0
\* nodes.
ArcHierarchies ==
    { <<{<<"1", "2">>}, {<<"s", "p">>}>>,
      <<{<<"1", "1">>}, {<<"s", "p">>}>>,
      <<{<<"1", "2">>, <<"2", "3">>}, {<<"s", "s">>}>>,
      <<{}, {<<"s", "p">>}>> }

\* The arc universe of two hierarchies.
ArcUniverse(prs, nmb) == all_arcs({}, prs, nmb)

InitCross ==
    /\ fn = "crossalgebra"
    /\ pc = "call"
    /\ person \in SUBSET (Persons \X Persons)
    /\ number \in SUBSET (Numbers \X Numbers)
    /\ algebra = {}
    /\ output = {}
    /\ IdleArc
    /\ IdleClosure
    /\ IdlePattern
    /\ IdleIso
    /\ IdleOver

InitArc ==
    /\ fn = "arc_addition"
    /\ pc = "call"
    /\ \E h \in ArcHierarchies :
          /\ person = h[1]
          /\ number = h[2]
          /\ \E missing \in SubsetsUpTo(ArcUniverse(h[1], h[2]), MaxPool) :
                algebra = ArcUniverse(h[1], h[2]) \ missing
    /\ output = {}
    /\ IdleArc
    /\ IdleClosure
    /\ IdlePattern
    /\ IdleIso
    /\ IdleOver

CrossAlgebra ==
    /\ fn = "crossalgebra"
    /\ pc = "call"
    /\ IF CrossRaises(person, number)
       THEN pc' = "KeyError" /\ output' = output
       ELSE pc' = "return" /\ output' = crossalgebra(person, number)
    /\ UNCHANGED <<fn, hierVars, algebra, arcVars, closureVars, patternVars, isoVars, overVars>>

\* The set comprehension draws one more subset from the chain of
\* combinations: all subsets of size r, in some order, before those of size
\* r+1.
ArcAdditionStep ==
    /\ fn = "arc_addition"
    /\ pc = "call"
    /\ LET pool == all_arcs(algebra, person, number)
       IN  /\ r <= Cardinality(pool)
           /\ \E additions \in combinations(pool, r) \ consumed :
                 /\ closed_algebras' = closed_algebras \cup
                       {reachability_closure(algebra_expansion(algebra, additions))}
                 /\ IF consumed \cup {additions} = combinations(pool, r)
                    THEN r' = r + 1 /\ consumed' = {}
                    ELSE r' = r /\ consumed' = consumed \cup {additions}
    /\ UNCHANGED <<fn, pc, hierVars, algebra, output, closureVars, patternVars, isoVars, overVars>>

\* The chain is exhausted: the set is returned.
ArcAdditionReturn ==
    /\ fn = "arc_addition"
    /\ pc = "call"
    /\ r > Cardinality(all_arcs(algebra, person, number))
    /\ pc' = "return"
    /\ UNCHANGED <<fn, hierVars, algebra, output, arcVars, closureVars, patternVars, isoVars, overVars>>

InitAlgebra == InitArc \/ InitCross

NextAlgebra == CrossAlgebra \/ ArcAdditionStep \/ ArcAdditionReturn

SpecAlgebra == InitAlgebra /\ [][NextAlgebra]_vars

---------------------------------------------------------------------------
(* reachability_closure as an operation: one action per call *)

\* The nodes the relations given to reachability_closure are drawn over.
ClosureNodes == {"1", "2"} \X Numbers

InitClosure ==
    /\ fn = "reachability_closure"
    /\ pc = "call"
    /\ relation \in SubsetsUpTo(ClosureNodes \X ClosureNodes, MaxArcs)
    /\ algebra = relation
    /\ calls = 1
    /\ application = 1
    /\ closure1 = {}
    /\ output = {}
    /\ IdleHier
    /\ IdleArc
    /\ IdlePattern
    /\ IdleIso
    /\ IdleOver

\* One call: the pass, then the return or the recursive call.
ClosureCall ==
    /\ fn = "reachability_closure"
    /\ pc = "call"
    /\ LET new_algebra == ClosureRound(algebra)
       IN  IF ClosureReturns(new_algebra, algebra)
           THEN /\ pc' = "return"
                /\ output' = new_algebra
                /\ UNCHANGED <<algebra, calls>>
           ELSE /\ algebra' = new_algebra
                /\ calls' = calls + 1
                /\ UNCHANGED <<pc, output>>
    /\ UNCHANGED <<fn, hierVars, arcVars, relation, application, closure1, patternVars, isoVars, overVars>>

\* The result is given to reachability_closure again.
ClosureAgain ==
    /\ fn = "reachability_closure"
    /\ pc = "return"
    /\ application = 1
    /\ application' = 2
    /\ closure1' = output
    /\ algebra' = output
    /\ calls' = 1
    /\ pc' = "call"
    /\ UNCHANGED <<fn, hierVars, arcVars, relation, output, patternVars, isoVars, overVars>>

NextClosure == ClosureCall \/ ClosureAgain

\* A call that was made runs: the program is sequential.
SpecClosure == InitClosure /\ [][NextClosure]_vars /\ WF_vars(NextClosure)

---------------------------------------------------------------------------
(* algebra_interpretation and number_to_letter as operations *)

Cells == Range(presentation)
CellArcs == {a \in Cells \X Cells : a[1] # a[2]}

\* The algebras syn_patterns is given are closed: arc_addition closes them.
InitInterpretation ==
    /\ fn = "algebra_interpretation"
    /\ pc = "call"
    /\ \E seed \in SubsetsUpTo(CellArcs, MaxSeed) :
          algebra = reachability_closure(seed)
    /\ output = {}
    /\ IdleHier
    /\ IdleArc
    /\ IdleClosure
    /\ IdlePattern
    /\ IdleIso
    /\ IdleOver

AlgebraInterpretation ==
    /\ fn = "algebra_interpretation"
    /\ pc = "call"
    /\ syncretism' = algebra_interpretation(algebra)
    /\ pc' = "return"
    /\ UNCHANGED <<fn, hierVars, algebra, output, arcVars, closureVars, letters, isoVars, overVars>>

\* syn_patterns gives the result to number_to_letter.
NumberToLetter ==
    /\ fn = "algebra_interpretation"
    /\ pc = "return"
    /\ fn' = "number_to_letter"
    /\ letters' = number_to_letter(syncretism)
    /\ UNCHANGED <<pc, hierVars, algebra, output, arcVars, closureVars, syncretism, isoVars, overVars>>

NextInterpretation == AlgebraInterpretation \/ NumberToLetter

SpecInterpretation == InitInterpretation /\ [][NextInterpretation]_vars

---------------------------------------------------------------------------
(* test_monotonicity and isomorphic as operations *)

\* The labels the patterns are drawn over: the first of all_patterns.
Labels == {"A", "B", "C"}

SixPatterns(labels) == [1..6 -> labels]

\* The base algebras with every pattern of three labels, and every small
\* relation over the cells with every pattern of two labels.
InitMonotonicity ==
    /\ fn = "test_monotonicity"
    /\ pc = "call"
    /\ \/ /\ algebra \in Range(base_algebras)
          /\ syncretism \in SixPatterns(Labels)
       \/ /\ algebra \in SubsetsUpTo(CellArcs, MaxMonoArcs)
          /\ syncretism \in SixPatterns({"A", "B"})
    /\ letters = <<>>
    /\ verdict = FALSE
    /\ xs = <<>>
    /\ ys = <<>>
    /\ output = {}
    /\ IdleHier
    /\ IdleArc
    /\ IdleClosure
    /\ IdleOver

TestMonotonicity ==
    /\ fn = "test_monotonicity"
    /\ pc = "call"
    /\ verdict' = test_monotonicity(algebra, syncretism)
    /\ pc' = "return"
    /\ UNCHANGED <<fn, hierVars, algebra, output, arcVars, closureVars,
                   patternVars, xs, ys, overVars>>

NextMonotonicity == TestMonotonicity

SpecMonotonicity == InitMonotonicity /\ [][NextMonotonicity]_vars

InitIsomorphic ==
    /\ fn = "isomorphic"
    /\ pc = "call"
    /\ \E n \in 0..MaxLen :
          /\ xs \in [1..n -> Labels]
          /\ ys \in [1..n -> Labels]
    /\ verdict = FALSE
    /\ algebra = {}
    /\ output = {}
    /\ IdleHier
    /\ IdleArc
    /\ IdleClosure
    /\ IdlePattern
    /\ IdleOver

Isomorphic ==
    /\ fn = "isomorphic"
    /\ pc = "call"
    /\ verdict' = isomorphic(xs, ys)
    /\ pc' = "return"
    /\ UNCHANGED <<fn, hierVars, algebra, output, arcVars, closureVars,
                   patternVars, xs, ys, overVars>>

NextIsomorphic == Isomorphic

SpecIsomorphic == InitIsomorphic /\ [][NextIsomorphic]_vars

---------------------------------------------------------------------------
(* monotonicity_overgeneration as an operation *)

\* The patterns the attested and the candidate patterns are drawn from: two
\* isomorphic ones, one monotonic for every base algebra, one for none and
\* one for some.
PatternPool ==
    { <<"A", "B", "C", "D", "E", "F">>,
      <<"F", "E", "D", "C", "B", "A">>,
      <<"A", "A", "B", "C", "D", "E">>,
      <<"A", "C", "B", "B", "D", "A">>,
      <<"A", "B", "A", "C", "D", "E">> }

InitOvergeneration ==
    /\ fn = "monotonicity_overgeneration"
    /\ pc = "call"
    /\ data \in SUBSET PatternPool
    /\ \E n \in 0..MaxCandidates : patterns \in [1..n -> PatternPool]
    /\ all_monotonic = <<>>
    /\ position = 0
    /\ unique_monotonic = <<>>
    /\ report = <<>>
    /\ algebra = {}
    /\ output = {}
    /\ IdleHier
    /\ IdleArc
    /\ IdleClosure
    /\ IdlePattern
    /\ IdleIso

OvergenerationAllMonotonic ==
    /\ fn = "monotonicity_overgeneration"
    /\ pc = "call"
    /\ all_monotonic' = AllMonotonic(base_algebras, patterns)
    /\ position' = 1
    /\ pc' = "unique"
    /\ UNCHANGED <<fn, hierVars, algebra, output, arcVars, closureVars,
                   patternVars, isoVars, data, patterns, unique_monotonic, report>>

OvergenerationUnique ==
    /\ fn = "monotonicity_overgeneration"
    /\ pc = "unique"
    /\ position <= Len(all_monotonic)
    /\ unique_monotonic' = UniqueAdd(unique_monotonic, all_monotonic[position])
    /\ position' = position + 1
    /\ UNCHANGED <<fn, pc, hierVars, algebra, output, arcVars, closureVars,
                   patternVars, isoVars, data, patterns, all_monotonic, report>>

OvergenerationReturn ==
    /\ fn = "monotonicity_overgeneration"
    /\ pc = "unique"
    /\ position > Len(all_monotonic)
    /\ report' = OvergenerationReport(unique_monotonic, data)
    /\ pc' = "return"
    /\ UNCHANGED <<fn, hierVars, algebra, output, arcVars, closureVars,
                   patternVars, isoVars, data, patterns, all_monotonic, position,
                   unique_monotonic>>

NextOvergeneration ==
    OvergenerationAllMonotonic \/ OvergenerationUnique \/ OvergenerationReturn

SpecOvergeneration == InitOvergeneration /\ [][NextOvergeneration]_vars

---------------------------------------------------------------------------
(* What the claims speak of *)

\* A relation is closed: a fixpoint of the closure's rule.
IsClosed(R) ==
    \A x \in R, y \in R : (x[2] = y[1] /\ x[1] # y[2]) => <<x[1], y[2]>> \in R

\* X is the least closed relation that contains R.  The closed relations that
\* contain R are closed under intersection, so X is the least one when no
\* closed relation between R and X is smaller than X.
IsLeastClosed(X, R) ==
    /\ R \subseteq X
    /\ IsClosed(X)
    /\ \A Y \in SUBSET (X \ R) : IsClosed(R \cup Y) => R \cup Y = X

HasSelfPair(hierarchy) == \E ranking \in hierarchy : ranking[1] = ranking[2]

---------------------------------------------------------------------------
(* Claims on crossalgebra and arc_addition, under SpecAlgebra *)

\* C1: arc_addition returns exactly the closures of the algebra with each
\* subset of the missing arcs added, each once, in whatever order the subsets
\* are drawn; these are exactly the closed relations between the algebra and
\* the arc universe; with one missing arc there are at most 2 of them, and 2
\* iff adding the arc changes the closure.
C1_ArcAdditionExact ==
    (fn = "arc_addition" /\ pc = "return") =>
        LET pool == all_arcs(algebra, person, number)
        IN  /\ \A S \in SUBSET pool :
                  \E X \in closed_algebras : IsLeastClosed(X, algebra \cup S)
            /\ \A X \in closed_algebras :
                  \E S \in SUBSET pool : IsLeastClosed(X, algebra \cup S)
            /\ closed_algebras =
                  {R \in {algebra \cup S : S \in SUBSET pool} : IsClosed(R)}
            /\ Cardinality(pool) = 1 =>
                  /\ Cardinality(closed_algebras) <= 2
                  /\ Cardinality(closed_algebras) = 2 <=>
                        reachability_closure(algebra \cup pool)
                            # reachability_closure(algebra)

\* C1, witness: arc_addition returned for an algebra with three missing arcs,
\* more than one closed algebra, and fewer closed algebras than subsets.
C1_Witness ==
    /\ fn = "arc_addition"
    /\ pc = "return"
    /\ Cardinality(all_arcs(algebra, person, number)) = 3
    /\ Cardinality(closed_algebras) > 1
    /\ Cardinality(closed_algebras) < 8

\* The arcs the claim C4 gives for two hierarchies.
CrossExpected(prs, nmb) ==
    LET nodes == extract_elements(prs) \X extract_elements(nmb)
    IN  {a \in nodes \X nodes :
            /\ a[1] # a[2]
            /\ (a[1][1] = a[2][1] \/ <<a[1][1], a[2][1]>> \in prs)
            /\ (a[1][2] = a[2][2] \/ <<a[1][2], a[2][2]>> \in nmb)}

\* C4: for every person and number hierarchy crossalgebra returns exactly the
\* arcs between distinct nodes that are equal or ordered on both dimensions,
\* and nothing else (no self-pair, no None).
C4_CrossAlgebraExact ==
    (fn = "crossalgebra" /\ pc # "call") =>
        /\ pc = "return"
        /\ output = CrossExpected(person, number)
        /\ None \notin output

\* What crossalgebra does instead: it raises KeyError when a hierarchy is
\* empty, since the set then holds no None to remove, and returns the arcs of
\* C4 otherwise; so for the hierarchies 123 and sp of the program 1s precedes
\* 2s and 1p, 2s precedes 3s, neither 1p nor 2p precedes 1s, and 2s and 1p
\* have no arc in either direction.
CrossAlgebraExactUnlessEmpty ==
    (fn = "crossalgebra" /\ pc # "call") =>
        /\ pc = "KeyError" <=> (person = {} \/ number = {})
        /\ pc = "return" =>
              /\ output = CrossExpected(person, number)
              /\ None \notin output
              /\ (person = person_hrcs["123"] /\ number = number_hrcs["sp"]) =>
                    /\ <<<<"1", "s">>, <<"2", "s">>>> \in output
                    /\ <<<<"2", "s">>, <<"3", "s">>>> \in output
                    /\ <<<<"1", "s">>, <<"1", "p">>>> \in output
                    /\ <<<<"1", "p">>, <<"1", "s">>>> \notin output
                    /\ <<<<"2", "p">>, <<"1", "s">>>> \notin output
                    /\ <<<<"2", "s">>, <<"1", "p">>>> \notin output
                    /\ <<<<"1", "p">>, <<"2", "s">>>> \notin output

\* C8: a hierarchy with a self-pair makes crossalgebra and arc_addition end in
\* a validation error before any relation is computed, and never return a
\* relation.
C8_MalformedRejected ==
    (HasSelfPair(person) \/ HasSelfPair(number)) =>
        /\ pc \in {"call", "ValidationError"}
        /\ output = {}
        /\ closed_algebras = {}

---------------------------------------------------------------------------
(* Claims on reachability_closure, under SpecClosure *)

NodesOf(R) == {x[1] : x \in R} \cup {x[2] : x \in R}

\* C2: reachability_closure returns the least relation that contains its
\* argument and is closed under the rule; it adds no self-pair, so an
\* irreflexive argument gives an irreflexive result; {(A,B),(B,C)} gives
\* {(A,B),(B,C),(A,C)}.
C2_ClosureLeast ==
    (fn = "reachability_closure" /\ pc = "return" /\ application = 1) =>
        /\ IsLeastClosed(output, relation)
        /\ \A x \in output \ relation : x[1] # x[2]
        /\ output = reachability_closure(relation)
        /\ LET A == <<"1", "s">>
               B == <<"2", "s">>
               C == <<"1", "p">>
           IN  relation = {<<A, B>>, <<B, C>>} =>
                   output = {<<A, B>>, <<B, C>>, <<A, C>>}

\* C2, witness: the closure of a relation that holds (a,b) and (b,a) returned
\* with pairs added and no self-pair.
C2_Witness ==
    /\ fn = "reachability_closure"
    /\ pc = "return"
    /\ application = 1
    /\ output # relation
    /\ \E x \in relation : x[1] # x[2] /\ <<x[2], x[1]>> \in relation
    /\ \A x \in output : x[1] # x[2]

\* C3: the closure is idempotent: applied to its own result it returns it.
C3_ClosureIdempotent ==
    (fn = "reachability_closure" /\ pc = "return" /\ application = 2) =>
        output = closure1

\* C3, witness: the second application returned, for a relation whose
\* closure needed two passes that add pairs.
C3_Witness ==
    /\ fn = "reachability_closure"
    /\ pc = "return"
    /\ application = 2
    /\ ClosureRound(relation) # relation
    /\ ClosureRound(ClosureRound(relation)) # ClosureRound(relation)

\* C9: the iteration terminates: each call's relation contains that of the
\* call before, every pass but the last adds a pair of two distinct nodes of
\* the relation, at most |N|*(|N|-1) passes add pairs, and the pass that adds
\* nothing is reached and the relation returned.
C9_ClosureTerminates ==
    /\ [][ClosureCall =>
            /\ algebra \subseteq algebra'
            /\ NodesOf(algebra') = NodesOf(algebra)
            /\ pc' = "call" =>
                  \E x \in algebra' \ algebra : x[1] # x[2]
            /\ pc' = "return" => output' = algebra]_vars
    /\ [](fn = "reachability_closure" =>
            calls - 1 <= Cardinality(NodesOf(relation))
                            * (Cardinality(NodesOf(relation)) - 1))
    /\ (fn = "reachability_closure" /\ pc = "call") ~> (pc = "return")

\* C9, witness: a third call, after two passes that added pairs.
C9_Witness ==
    /\ fn = "reachability_closure"
    /\ application = 1
    /\ calls = 3
    /\ pc = "return"

---------------------------------------------------------------------------
(* Claims on algebra_interpretation, under SpecInterpretation *)

\* Two cells are tied in a relation.
Tied(R, c1, c2) == <<c1, c2>> \in R /\ <<c2, c1>> \in R

\* C5: for an irreflexive closed relation over the six cells the result is
\* the canonical labelling of the tie partition: two cells get the same value
\* iff they are tied, the first cell gets 0, every later cell gets the value
\* of an earlier cell or the next unused integer; a relation whose only arcs
\* tie 1s and 2s gives ('A','A','B','C','D','E').
C5_InterpretationCanonical ==
    (fn \in {"algebra_interpretation", "number_to_letter"} /\ pc = "return") =>
        /\ Len(syncretism) = 6
        /\ \A i \in 1..6, j \in 1..6 :
              syncretism[i] = syncretism[j] <=>
                  (i = j \/ Tied(algebra, presentation[i], presentation[j]))
        /\ syncretism[1] = 0
        /\ \A i \in 2..6 :
              LET before == {syncretism[j] : j \in 1..(i - 1)}
              IN  syncretism[i] \in before \/ syncretism[i] = Max(before) + 1
        /\ (fn = "number_to_letter"
                /\ algebra = {<<presentation[1], presentation[2]>>,
                              <<presentation[2], presentation[1]>>}) =>
              letters = <<"A", "A", "B", "C", "D", "E">>

\* C5, witness: the pattern of a closed relation in which a later cell is
\* tied with two earlier cells, the first and the third, and the second cell
\* is in another class.
C5_Witness ==
    /\ fn = "number_to_letter"
    /\ pc = "return"
    /\ \E i \in 1..6, j \in 1..6, k \in 1..6 :
          /\ i < j /\ j < k
          /\ Tied(algebra, presentation[i], presentation[k])
          /\ Tied(algebra, presentation[j], presentation[k])
    /\ letters[3] = "A"
    /\ letters[2] = "B"

---------------------------------------------------------------------------
(* Claims on test_monotonicity, under SpecMonotonicity *)

\* The label a pattern gives a cell.
LabelOf(sync, cell) == sync[CHOOSE i \in 1..6 : presentation[i] = cell]

\* Two arcs of the relation collapse under the pattern to (p,q) and (q,p)
\* with p # q.
Reversal(R, sync) ==
    \E x \in R, y \in R :
        /\ LabelOf(sync, x[1]) = LabelOf(sync, y[2])
        /\ LabelOf(sync, x[2]) = LabelOf(sync, y[1])
        /\ LabelOf(sync, x[1]) # LabelOf(sync, x[2])

\* C6: test_monotonicity returns False iff two arcs of the relation collapse
\* under the pattern to (p,q) and (q,p) with p # q, and True otherwise; arcs
\* that collapse to a self-pair (p,p) never make it False.
C6_MonotonicityExact ==
    (fn = "test_monotonicity" /\ pc = "return") =>
        /\ verdict = ~ Reversal(algebra, syncretism)
        /\ (\A x \in algebra : LabelOf(syncretism, x[1]) = LabelOf(syncretism, x[2]))
              => verdict = TRUE

\* C6, witness: False for a base algebra, under a pattern that also
\* collapses one of its arcs to a self-pair.
C6_Witness ==
    /\ fn = "test_monotonicity"
    /\ pc = "return"
    /\ verdict = FALSE
    /\ algebra \in Range(base_algebras)
    /\ \E x \in algebra : LabelOf(syncretism, x[1]) = LabelOf(syncretism, x[2])

---------------------------------------------------------------------------
(* Claims on isomorphic, under SpecIsomorphic *)

SamePartition(seq1, seq2) ==
    /\ Len(seq1) = Len(seq2)
    /\ \A i \in 1..Len(seq1), j \in 1..Len(seq1) :
          seq1[i] = seq1[j] <=> seq2[i] = seq2[j]

\* C7: for sequences of the same length isomorphic is true iff they induce
\* the same partition of the positions; it is true of (x,x), and the same for
\* (x,y) and (y,x).
C7_IsomorphicExact ==
    (fn = "isomorphic" /\ pc = "return") =>
        /\ verdict = SamePartition(xs, ys)
        /\ isomorphic(xs, xs)
        /\ isomorphic(ys, xs) = verdict

\* C7, witness: true for two sequences that share no label at any position
\* and repeat a label at two positions that are not neighbours.
C7_Witness ==
    /\ fn = "isomorphic"
    /\ pc = "return"
    /\ verdict = TRUE
    /\ Len(xs) = 4
    /\ \A i \in 1..4 : xs[i] # ys[i]
    /\ xs[1] = xs[3]
    /\ xs[1] # xs[2]

---------------------------------------------------------------------------
(* Claims on monotonicity_overgeneration, under SpecOvergeneration *)

\* C10: every key of the report is a candidate pattern that is monotonic for
\* some base algebra and isomorphic to no attested pattern, and no two keys
\* of the report are isomorphic.
C10_ReportIsOvergeneration ==
    (fn = "monotonicity_overgeneration" /\ pc = "return") =>
        \A i \in 1..Len(report) :
            /\ report[i] \in Range(patterns)
            /\ is_monotonic(base_algebras, report[i]) # {}
            /\ \A key2 \in data : ~ SamePartition(report[i], key2)
            /\ \A j \in 1..Len(report) :
                  j # i => ~ SamePartition(report[i], report[j])

\* What the report holds instead: the keys that differ, up to isomorphism,
\* from at least one attested pattern.
ReportKeepsKeysUnlikeSomeAttested ==
    (fn = "monotonicity_overgeneration" /\ pc = "return") =>
        /\ \A i \in 1..Len(report) :
              /\ report[i] \in Range(patterns)
              /\ is_monotonic(base_algebras, report[i]) # {}
              /\ \E key2 \in data : ~ SamePartition(report[i], key2)
              /\ \A j \in 1..Len(report) :
                    j # i => ~ SamePartition(report[i], report[j])
        /\ \A i \in 1..Len(patterns) :
              (/\ is_monotonic(base_algebras, patterns[i]) # {}
               /\ \E key2 \in data : ~ SamePartition(patterns[i], key2))
                  => \E j \in 1..Len(report) : SamePartition(report[j], patterns[i])

=============================================================================
